---- MODULE Spec2Model ----
(***************************************************************************)
(* Model of src/tcp_server.py: a thread-per-connection TCP server that     *)
(* reads one buffer, parses an HTTP request line, routes it and writes a   *)
(* hand-assembled response.                                                *)
(*                                                                         *)
(* Text is modelled as a sequence of lexemes: a lexeme is either one       *)
(* delimiter character (" ", "/", "?", ...), the two-character line        *)
(* terminator, an undecodable byte, or a maximal run of letters (a word).  *)
(* The string operations of the source (split, find, slicing) act on the   *)
(* delimiters, so they are modelled on lexeme sequences as they are coded. *)
(***************************************************************************)
EXTENDS Integers, Sequences, FiniteSets, TLC

\* ------------------------------------------------------------------------
\* Bounds of the model
\* ------------------------------------------------------------------------

\* number of connections the accept loop may accept in one run
MaxConn == 2

\* ------------------------------------------------------------------------
\* Lexemes
\* ------------------------------------------------------------------------

SP == " "
CRLF == "CRLF"
\* a byte that is not valid in the text encoding (e.g. 0xFF)
BadByte == "xFF"

\* ENCODING = "utf-8". A word or an ASCII delimiter encodes to itself; the
\* two-byte character Wide encodes to the bytes Lead, Cont. Decoding fails on
\* BadByte, on a Lead that no Cont follows and on a Cont that follows no Lead.
Wide == "e'"
Lead == "xC3"
Cont == "xA9"

RECURSIVE Encode(_)
Encode(text) ==
    IF text = <<>> THEN <<>>
    ELSE (IF text[1] = Wide THEN <<Lead, Cont>> ELSE <<text[1]>>)
         \o Encode(Tail(text))

\* bytes.decode(ENCODING): [raises |-> UnicodeDecodeError?, text |-> str]
RECURSIVE Decode(_)
Decode(bytes) ==
    IF bytes = <<>> THEN [raises |-> FALSE, text |-> <<>>]
    ELSE IF bytes[1] \in {BadByte, Cont} THEN [raises |-> TRUE, text |-> <<>>]
    ELSE IF bytes[1] = Lead
    THEN IF Len(bytes) >= 2 /\ bytes[2] = Cont
         THEN LET rest == Decode(SubSeq(bytes, 3, Len(bytes)))
              IN [raises |-> rest.raises,
                  text |-> IF rest.raises THEN <<>> ELSE <<Wide>> \o rest.text]
         ELSE [raises |-> TRUE, text |-> <<>>]
    ELSE LET rest == Decode(Tail(bytes))
         IN [raises |-> rest.raises,
             text |-> IF rest.raises THEN <<>> ELSE <<bytes[1]>> \o rest.text]

\* ------------------------------------------------------------------------
\* String helpers (str.find, str.split)
\* ------------------------------------------------------------------------

\* str.find(ch): first index of ch in s, 0 when absent
Find(s, ch) ==
    IF \E i \in 1..Len(s) : s[i] = ch
    THEN CHOOSE i \in 1..Len(s) : s[i] = ch /\ \A j \in 1..(i-1) : s[j] # ch
    ELSE 0

\* str.rfind(ch): last index of ch in s, 0 when absent
RFind(s, ch) ==
    IF \E i \in 1..Len(s) : s[i] = ch
    THEN CHOOSE i \in 1..Len(s) : s[i] = ch /\ \A j \in (i+1)..Len(s) : s[j] # ch
    ELSE 0

\* first index >= from of ch in s, 0 when absent
FindFrom(s, ch, from) ==
    IF \E i \in from..Len(s) : s[i] = ch
    THEN CHOOSE i \in from..Len(s) : s[i] = ch /\ \A j \in from..(i-1) : s[j] # ch
    ELSE 0

Before(s, i) == SubSeq(s, 1, i - 1)
After(s, i) == SubSeq(s, i + 1, Len(s))

\* str.split(sep): always at least one (possibly empty) piece
RECURSIVE SplitBy(_, _)
SplitBy(s, sep) ==
    IF Find(s, sep) = 0 THEN <<s>>
    ELSE <<Before(s, Find(s, sep))>> \o SplitBy(After(s, Find(s, sep)), sep)

\* str.split(): split on runs of whitespace, no empty pieces
IsSpace(ch) == ch \in {SP, CRLF}

RECURSIVE SplitWS(_)
SplitWS(s) ==
    IF s = <<>> THEN <<>>
    ELSE IF IsSpace(s[1]) THEN SplitWS(Tail(s))
    ELSE LET stop == IF \E i \in 1..Len(s) : IsSpace(s[i])
                     THEN CHOOSE i \in 1..Len(s) :
                            IsSpace(s[i]) /\ \A j \in 1..(i-1) : ~IsSpace(s[j])
                     ELSE Len(s) + 1
         IN <<Before(s, stop)>> \o SplitWS(SubSeq(s, stop, Len(s)))

\* ------------------------------------------------------------------------
\* urllib.parse.urlparse / parse_qs, as parse_http_request uses them
\* ------------------------------------------------------------------------

Delims == {SP, CRLF, BadByte, Lead, Cont, "/", "?", "#", ";", ":", "[", "]", "=", "&"}

\* a word: a run of letters and digits
IsWord(ch) == ch \notin Delims

Has(s, ch) == Find(s, ch) # 0

\* urlsplit: a leading run of scheme characters followed by ":" is the scheme
SchemeEnd(url) ==
    LET i == Find(url, ":")
    IN IF i > 1 /\ \A j \in 1..(i-1) : IsWord(url[j]) THEN i ELSE 0

\* _splitnetloc(url, 2): the authority ends at the first "/", "?" or "#"
NetlocEnd(url) ==
    LET stops == {i \in 3..Len(url) : url[i] \in {"/", "?", "#"}}
    IN IF stops = {} THEN Len(url) + 1
       ELSE CHOOSE i \in stops : \A j \in stops : i <= j

\* urlsplit raises ValueError("Invalid IPv6 URL") on an unbalanced bracket
BadNetloc(netloc) == Has(netloc, "[") # Has(netloc, "]")

\* the schemes of uses_params that the lexemes can spell
UsesParams == {<<>>, <<"http">>}

\* _splitparams: the ";" parameters of the last path segment
SplitParams(url) ==
    LET i == IF Has(url, "/") THEN FindFrom(url, ";", RFind(url, "/"))
             ELSE Find(url, ";")
    IN IF i = 0 THEN [path |-> url, params |-> <<>>]
       ELSE [path |-> Before(url, i), params |-> After(url, i)]

\* urlsplit, step by step: each step takes what the previous one left
SplitScheme(url) ==
    IF SchemeEnd(url) > 0
    THEN [scheme |-> Before(url, SchemeEnd(url)), rest |-> After(url, SchemeEnd(url))]
    ELSE [scheme |-> <<>>, rest |-> url]

SplitNetloc(url) ==
    IF Len(url) >= 2 /\ url[1] = "/" /\ url[2] = "/"
    THEN [raises |-> BadNetloc(SubSeq(url, 3, NetlocEnd(url) - 1)),
          netloc |-> SubSeq(url, 3, NetlocEnd(url) - 1),
          rest |-> SubSeq(url, NetlocEnd(url), Len(url))]
    ELSE [raises |-> FALSE, netloc |-> <<>>, rest |-> url]

\* url.split(ch, 1) when ch is in url
SplitFirst(url, ch) ==
    IF Has(url, ch)
    THEN [rest |-> Before(url, Find(url, ch)), cut |-> After(url, Find(url, ch))]
    ELSE [rest |-> url, cut |-> <<>>]

\* urlparse: the ";" parameters are split off for the schemes of uses_params
PathParams(scheme, url) ==
    IF scheme \in UsesParams /\ Has(url, ";") THEN SplitParams(url)
    ELSE [path |-> url, params |-> <<>>]

UrlParse(full_path) ==
    LET s1 == SplitScheme(full_path)
        s2 == SplitNetloc(s1.rest)
        s3 == SplitFirst(s2.rest, "#")
        s4 == SplitFirst(s3.rest, "?")
        s5 == PathParams(s1.scheme, s4.rest)
    IN [raises |-> s2.raises,
        scheme |-> s1.scheme, netloc |-> s2.netloc, path |-> s5.path,
        params |-> s5.params, query |-> s4.cut, fragment |-> s3.cut]

\* parse_qsl as with keep_blank_values=True: a piece without a value is kept
\* with the empty string as its value
RECURSIVE AddPairs_KeepBlank(_, _)
AddPairs_KeepBlank(pairs, dict) ==
    IF pairs = <<>> THEN dict
    ELSE LET nv == pairs[1]
             eq == Find(nv, "=")
             name == IF eq = 0 THEN nv ELSE Before(nv, eq)
             value == IF eq = 0 THEN <<>> ELSE After(nv, eq)
             next == IF nv = <<>> THEN dict
                     ELSE IF name \in DOMAIN dict
                     THEN [dict EXCEPT ![name] = Append(@, value)]
                     ELSE [k \in DOMAIN dict \cup {name} |->
                             IF k = name THEN <<value>> ELSE dict[k]]
         IN AddPairs_KeepBlank(Tail(pairs), next)

\* parse_qs(qs): "&"-separated name=value pairs; a pair without "=" or with an
\* empty value is skipped (keep_blank_values=False, strict_parsing=False);
\* the values of a repeated name accumulate in order
RECURSIVE AddPairs(_, _)
AddPairs(pairs, dict) ==
    IF pairs = <<>> THEN dict
    ELSE LET nv == pairs[1]
             eq == Find(nv, "=")
             name == Before(nv, eq)
             value == After(nv, eq)
             keep == eq > 0 /\ Len(value) > 0
             next == IF ~keep THEN dict
                     ELSE IF name \in DOMAIN dict
                     THEN [dict EXCEPT ![name] = Append(@, value)]
                     ELSE [k \in DOMAIN dict \cup {name} |->
                             IF k = name THEN <<value>> ELSE dict[k]]
         IN AddPairs(Tail(pairs), next)

\* the empty dict
EmptyDict == [k \in {} |-> <<>>]

ParseQs(qs) == AddPairs(SplitBy(qs, "&"), EmptyDict)

\* ------------------------------------------------------------------------
\* parse_http_request
\* ------------------------------------------------------------------------

Sentinel == [raises |-> FALSE, method |-> <<>>, path |-> <<>>, query |-> EmptyDict]


\* a parser that takes the target from the end of the request line
parse_http_request_LastToken(request) ==
    LET lines == SplitBy(request, CRLF)
        request_line == lines[1]
        parts == SplitWS(request_line)
    IN IF Len(parts) < 2 THEN Sentinel
       ELSE LET parsed_url == UrlParse(parts[Len(parts)])
            IN IF parsed_url.raises
               THEN [raises |-> TRUE, method |-> <<>>, path |-> <<>>,
                     query |-> EmptyDict]
               ELSE [raises |-> FALSE, method |-> parts[1],
                     path |-> parsed_url.path,
                     query |-> ParseQs(parsed_url.query)]

\* a parser that returns the whole target as the path
parse_http_request_FullPath(request) ==
    LET lines == SplitBy(request, CRLF)
        request_line == lines[1]
        parts == SplitWS(request_line)
    IN IF Len(parts) < 2 THEN Sentinel
       ELSE LET parsed_url == UrlParse(parts[2])
            IN IF parsed_url.raises
               THEN [raises |-> TRUE, method |-> <<>>, path |-> <<>>,
                     query |-> EmptyDict]
               ELSE [raises |-> FALSE, method |-> parts[1],
                     path |-> parts[2],
                     query |-> ParseQs(parsed_url.query)]

parse_http_request(request) ==
    LET lines == SplitBy(request, CRLF)
        request_line == lines[1]
        parts == SplitWS(request_line)
    IN IF Len(parts) < 2 THEN Sentinel
       ELSE LET parsed_url == UrlParse(parts[2])
            IN IF parsed_url.raises
               THEN [raises |-> TRUE, method |-> <<>>, path |-> <<>>,
                     query |-> EmptyDict]
               ELSE [raises |-> FALSE, method |-> parts[1],
                     path |-> parsed_url.path,
                     query |-> ParseQs(parsed_url.query)]

\* ------------------------------------------------------------------------
\* Pages, collaborators, router and response builder
\* ------------------------------------------------------------------------

get_index_page == <<"index_page">>

get_search_movies == <<"search_form">>

\* the 404 body echoes the path between two fixed pieces of markup
NotFoundBody(path) == <<"404_head">> \o path \o <<"404_tail">>

BadRequestBody == <<"400_body">>

InternalErrorBody == <<"500_body">>

\* what a collaborator's remote call can do: answer, fail inside the
\* collaborator's own try (absorbed into an error page), or fail outside it
CollabOutcomes == {"answer", "absorbed", "raise"}

\* params.get(key, [default])[0]
FirstValue(params, key, default) ==
    IF key \in DOMAIN params THEN params[key][1] ELSE default

\* str.upper() on the currency codes the lexemes can spell
Upper(text) == [i \in 1..Len(text) |-> IF text[i] = "eur" THEN "EUR" ELSE text[i]]

handle_exchange_request(params, outcome) ==
    [raises |-> outcome = "raise",
     body |-> IF outcome = "answer"
              THEN <<"rate_of">>
                   \o Upper(FirstValue(params, <<"currency">>, <<"USD">>))
              ELSE <<"exchange_error">>]

handle_movie_request(params, outcome) ==
    LET title == FirstValue(params, <<"title">>, <<"unknown">>)
    IN IF title = <<"unknown">>
       THEN [raises |-> FALSE, body |-> <<"no_title">>]
       ELSE [raises |-> outcome = "raise",
             body |-> IF outcome = "answer" THEN <<"movie_of">> \o title
                      ELSE <<"movie_error">>]

\* a builder that counts characters: len(body)
create_http_response_CharCount(status_code, status_text, body) ==
    [status_code |-> status_code, status_text |-> status_text,
     content_length |-> Len(body), body |-> Encode(body)]

create_http_response(status_code, status_text, body) ==
    [status_code |-> status_code, status_text |-> status_text,
     content_length |-> Len(Encode(body)), body |-> Encode(body)]

\* a dispatch whose last branch leaves the status at its initial 200
Route_NotFoundAs200(path, params, outcome) ==
    IF path = <<"/">> \/ path = <<>>
    THEN [raises |-> FALSE, status_code |-> 200, status_text |-> "OK",
          body |-> get_index_page, collab |-> FALSE]
    ELSE IF path = <<"/", "movies">>
    THEN [raises |-> FALSE, status_code |-> 200, status_text |-> "OK",
          body |-> get_search_movies, collab |-> FALSE]
    ELSE IF path = <<"/", "exchange">>
    THEN [raises |-> handle_exchange_request(params, outcome).raises,
          status_code |-> 200, status_text |-> "OK",
          body |-> handle_exchange_request(params, outcome).body,
          collab |-> TRUE]
    ELSE IF path = <<"/", "movie">>
    THEN [raises |-> handle_movie_request(params, outcome).raises,
          status_code |-> 200, status_text |-> "OK",
          body |-> handle_movie_request(params, outcome).body,
          collab |-> TRUE]
    ELSE [raises |-> FALSE, status_code |-> 200, status_text |-> "OK",
          body |-> NotFoundBody(path), collab |-> FALSE]

\* the dispatch of handle_client: [raises, status_code, status_text, body, collab]
Route(path, params, outcome) ==
    IF path = <<"/">> \/ path = <<>>
    THEN [raises |-> FALSE, status_code |-> 200, status_text |-> "OK",
          body |-> get_index_page, collab |-> FALSE]
    ELSE IF path = <<"/", "movies">>
    THEN [raises |-> FALSE, status_code |-> 200, status_text |-> "OK",
          body |-> get_search_movies, collab |-> FALSE]
    ELSE IF path = <<"/", "exchange">>
    THEN [raises |-> handle_exchange_request(params, outcome).raises,
          status_code |-> 200, status_text |-> "OK",
          body |-> handle_exchange_request(params, outcome).body,
          collab |-> TRUE]
    ELSE IF path = <<"/", "movie">>
    THEN [raises |-> handle_movie_request(params, outcome).raises,
          status_code |-> 200, status_text |-> "OK",
          body |-> handle_movie_request(params, outcome).body,
          collab |-> TRUE]
    ELSE [raises |-> FALSE, status_code |-> 404, status_text |-> "Not Found",
          body |-> NotFoundBody(path), collab |-> FALSE]

\* ------------------------------------------------------------------------
\* The bytes a peer may send on a connection
\* ------------------------------------------------------------------------

RequestOf(target) == <<"GET", SP>> \o target \o <<SP, "HTTP", CRLF, CRLF>>

SampleRequests ==
    { RequestOf(<<"/">>),
      RequestOf(<<"/", "exchange", "?", "currency", "=", "eur">>),
      RequestOf(<<"/", "nope">>),
      RequestOf(<<"/", "/", "[">>),
      <<"GET", CRLF, CRLF>>,
      <<BadByte>>,
      <<>> }

\* ------------------------------------------------------------------------
\* State
\* ------------------------------------------------------------------------

VARIABLES
    mainPc,          \* where main() is: "bind", "accept", "start", "exited"
    exitCause,       \* what ended main()'s try block, "none" while it runs
    listenerCloses,  \* calls of server_socket.close()
    accepted,        \* connections returned by accept so far
    conn,            \* per connection: the socket and its worker
    exitStatus,      \* <<>> while the process runs, then <<its exit status>>
    probe            \* one input and the results of the functions applied to it

vars == <<mainPc, exitCause, listenerCloses, accepted, conn, exitStatus, probe>>

Conns == 1..MaxConn

NoResponse == [status_code |-> 0, status_text |-> "", content_length |-> 0,
               body |-> <<>>]

\* a connection accept has not returned yet
FreshConn ==
    [pc |-> "none",         \* position of handle_client
     data |-> <<>>,         \* what recv returned
     parsed |-> Sentinel,   \* result of parse_http_request
     response |-> NoResponse, \* the response built at lines 542-544
     sent |-> <<>>,         \* sendall calls: <<[response, ok]>>
     routed |-> 0,          \* runs of the dispatch at lines 515-539
     collab |-> 0,          \* collaborator calls
     closes |-> 0,          \* client_socket.close() calls
     threads |-> 0,         \* workers started for this connection
     failed |-> "none",     \* the step whose exception was caught first
     result |-> "none"]     \* how handle_client ended: "returned", "raised"

\* nothing is probed in the server's own runs
NoProbe == [pc |-> "none"]

Init ==
    /\ mainPc = "bind"
    /\ exitCause = "none"
    /\ listenerCloses = 0
    /\ accepted = 0
    /\ conn = [c \in Conns |-> FreshConn]
    /\ exitStatus = <<>>
    /\ probe = NoProbe

\* ------------------------------------------------------------------------
\* main()
\* ------------------------------------------------------------------------

\* MainExit with server_socket.close() in the KeyboardInterrupt clause
\* instead of the finally clause
MainExit_CloseOnInterruptOnly(cause) ==
    /\ mainPc' = "exited"
    /\ exitCause' = cause
    /\ listenerCloses' = listenerCloses + (IF cause = "interrupt" THEN 1 ELSE 0)
    /\ UNCHANGED exitStatus

\* the except clauses and the finally of main(): the cause is printed and
\* swallowed, the listening socket is closed and main() returns
MainExit(cause) ==
    /\ mainPc' = "exited"
    /\ exitCause' = cause
    /\ listenerCloses' = listenerCloses + 1
    /\ UNCHANGED exitStatus

\* the script ends after the call of main() at line 630: the process exits
\* with status 0 whatever ended main(), without waiting for the workers,
\* which are daemon threads (line 609) and stop where they are
ProcessExit ==
    /\ mainPc = "exited"
    /\ exitStatus = <<>>
    /\ exitStatus' = <<0>>
    /\ UNCHANGED <<mainPc, exitCause, listenerCloses, accepted, conn, probe>>

Bind ==
    /\ mainPc = "bind"
    /\ mainPc' = "accept"
    /\ UNCHANGED <<exitCause, listenerCloses, accepted, conn, exitStatus, probe>>

BindFail ==
    /\ mainPc = "bind"
    /\ MainExit("bind_failure")
    /\ UNCHANGED <<accepted, conn, probe>>

\* Accept with the loop running handle_client to its end (or joining the
\* thread) before it calls accept again
Accept_AfterWorkerEnds ==
    /\ mainPc = "accept"
    /\ accepted < MaxConn
    /\ \A c \in 1..accepted : conn[c].pc = "done"
    /\ conn' = [conn EXCEPT ![accepted + 1].pc = "accepted"]
    /\ accepted' = accepted + 1
    /\ mainPc' = "start"
    /\ UNCHANGED <<exitCause, listenerCloses, exitStatus, probe>>

Accept ==
    /\ mainPc = "accept"
    /\ accepted < MaxConn
    /\ conn' = [conn EXCEPT ![accepted + 1].pc = "accepted"]
    /\ accepted' = accepted + 1
    /\ mainPc' = "start"
    /\ UNCHANGED <<exitCause, listenerCloses, exitStatus, probe>>

AcceptFail ==
    /\ mainPc = "accept"
    /\ MainExit("accept_failure")
    /\ UNCHANGED <<accepted, conn, probe>>

StartWorker ==
    /\ mainPc = "start"
    /\ conn' = [conn EXCEPT ![accepted].pc = "recv",
                            ![accepted].threads = @ + 1]
    /\ mainPc' = "accept"
    /\ UNCHANGED <<exitCause, listenerCloses, accepted, exitStatus, probe>>

StartFail ==
    /\ mainPc = "start"
    /\ MainExit("start_failure")
    /\ UNCHANGED <<accepted, conn, probe>>

Interrupt ==
    /\ mainPc \in {"bind", "accept", "start"}
    /\ MainExit("interrupt")
    /\ UNCHANGED <<accepted, conn, probe>>

\* ------------------------------------------------------------------------
\* handle_client(client_socket, address), one worker thread per connection
\* ------------------------------------------------------------------------

MainVars == <<mainPc, exitCause, listenerCloses, accepted, exitStatus, probe>>

Response400 == create_http_response(400, "Bad Request", BadRequestBody)

Response500 == create_http_response(500, "Internal Server Error", InternalErrorBody)

\* AfterRecv with the decode failure handled by the catch-all clause, as if
\* "except Exception" came before "except UnicodeDecodeError"
AfterRecv_DecodeCaughtAll(w) ==
    LET dec == Decode(w.data)
        req == parse_http_request(dec.text)
    IN IF w.data = <<>> THEN [w EXCEPT !.pc = "close"]
       ELSE IF dec.raises THEN [w EXCEPT !.pc = "send500", !.failed = "decode"]
       ELSE IF req.raises THEN [w EXCEPT !.pc = "send500", !.failed = "parse"]
       ELSE [w EXCEPT !.pc = "route", !.parsed = req]

\* AfterRecv without the "if not request_data: return" of lines 497-498
AfterRecv_NoEmptyCheck(w) ==
    LET dec == Decode(w.data)
        req == parse_http_request(dec.text)
    IN IF dec.raises THEN [w EXCEPT !.pc = "send400", !.failed = "decode"]
       ELSE IF req.raises THEN [w EXCEPT !.pc = "send500", !.failed = "parse"]
       ELSE [w EXCEPT !.pc = "route", !.parsed = req]

\* what the worker does with the bytes recv returned, up to the dispatch:
\* the zero-byte return, the decode and parse_http_request
AfterRecv(w) ==
    LET dec == Decode(w.data)
        req == parse_http_request(dec.text)
    IN IF w.data = <<>> THEN [w EXCEPT !.pc = "close"]
       ELSE IF dec.raises THEN [w EXCEPT !.pc = "send400", !.failed = "decode"]
       ELSE IF req.raises THEN [w EXCEPT !.pc = "send500", !.failed = "parse"]
       ELSE [w EXCEPT !.pc = "route", !.parsed = req]

\* recv returns what the peer sent (possibly zero bytes); decode and parse
\* follow without blocking
Recv(c) ==
    /\ conn[c].pc = "recv"
    /\ \E data \in SampleRequests :
         conn' = [conn EXCEPT ![c] = AfterRecv([conn[c] EXCEPT !.data = data])]
    /\ UNCHANGED MainVars

\* RecvError with the failed read answered like an undecodable request, as
\* if the first except clause caught OSError too
RecvError_BadRequest(c) ==
    /\ conn[c].pc = "recv"
    /\ conn' = [conn EXCEPT ![c].pc = "send400", ![c].failed = "recv"]
    /\ UNCHANGED MainVars

\* recv raises (connection reset): caught by "except Exception"
RecvError(c) ==
    /\ conn[c].pc = "recv"
    /\ conn' = [conn EXCEPT ![c].pc = "send500", ![c].failed = "recv"]
    /\ UNCHANGED MainVars

\* the dispatch and the building of the response
AfterRoute(w, outcome) ==
    LET r == Route(w.parsed.path, w.parsed.query, outcome)
        called == IF r.collab THEN 1 ELSE 0
    IN IF r.raises
       THEN [w EXCEPT !.pc = "send500", !.failed = "collab",
                      !.routed = @ + 1, !.collab = @ + called]
       ELSE [w EXCEPT !.pc = "send", !.routed = @ + 1, !.collab = @ + called,
                      !.response = create_http_response(r.status_code,
                                                        r.status_text, r.body)]

RouteStep(c) ==
    /\ conn[c].pc = "route"
    /\ \E outcome \in CollabOutcomes :
         conn' = [conn EXCEPT ![c] = AfterRoute(conn[c], outcome)]
    /\ UNCHANGED MainVars

\* AfterSend with a failed write going straight to the finally clause
AfterSend_NoRecovery(w, ok) ==
    IF ok THEN [w EXCEPT !.pc = "close",
                         !.sent = Append(@, [response |-> w.response, ok |-> TRUE])]
    ELSE [w EXCEPT !.pc = "close", !.failed = "write",
                   !.sent = Append(@, [response |-> w.response, ok |-> FALSE])]

\* AfterSend for a persistent connection: after a successful write the
\* worker waits for the next request instead of closing
AfterSend_KeepAlive(w, ok) ==
    IF ok THEN [FreshConn EXCEPT !.pc = "recv", !.threads = w.threads]
    ELSE [w EXCEPT !.pc = "send500", !.failed = "write",
                   !.sent = Append(@, [response |-> w.response, ok |-> FALSE])]

\* AfterSend with one retry: after the first failed write the request is
\* routed and built again
AfterSend_Retry(w, ok) ==
    IF ok THEN [w EXCEPT !.pc = "close",
                         !.sent = Append(@, [response |-> w.response, ok |-> TRUE])]
    ELSE IF w.sent = <<>>
    THEN [w EXCEPT !.pc = "route",
                   !.sent = Append(@, [response |-> w.response, ok |-> FALSE])]
    ELSE [w EXCEPT !.pc = "send500", !.failed = "write",
                   !.sent = Append(@, [response |-> w.response, ok |-> FALSE])]

\* client_socket.sendall(response) at line 545
AfterSend(w, ok) ==
    IF ok THEN [w EXCEPT !.pc = "close",
                         !.sent = Append(@, [response |-> w.response, ok |-> TRUE])]
    ELSE [w EXCEPT !.pc = "send500", !.failed = "write",
                   !.sent = Append(@, [response |-> w.response, ok |-> FALSE])]

Send(c) ==
    /\ conn[c].pc = "send"
    /\ \E ok \in BOOLEAN : conn' = [conn EXCEPT ![c] = AfterSend(conn[c], ok)]
    /\ UNCHANGED MainVars

\* except UnicodeDecodeError: the 400 write is not guarded, its failure
\* propagates out of handle_client after the finally clause
AfterSend400(w, ok) ==
    [w EXCEPT !.pc = "close",
              !.sent = Append(@, [response |-> Response400, ok |-> ok]),
              !.result = IF ok THEN "none" ELSE "raising"]

\* Send400 with the exception of the failed write reaching main(), as when
\* handle_client runs in the accept loop's own thread
Send400_InMainThread(c) ==
    /\ conn[c].pc = "send400"
    /\ \E ok \in BOOLEAN :
         /\ conn' = [conn EXCEPT ![c] = AfterSend400(conn[c], ok)]
         /\ IF ok THEN UNCHANGED MainVars
            ELSE /\ mainPc' = "exited"
                 /\ exitCause' = "worker_failure"
                 /\ listenerCloses' = listenerCloses + 1
                 /\ UNCHANGED <<accepted, exitStatus, probe>>

Send400(c) ==
    /\ conn[c].pc = "send400"
    /\ \E ok \in BOOLEAN : conn' = [conn EXCEPT ![c] = AfterSend400(conn[c], ok)]
    /\ UNCHANGED MainVars

\* AfterSend500 without the try/except of lines 568-571 around the write
AfterSend500_Unguarded(w, ok) ==
    [w EXCEPT !.pc = "close",
              !.sent = Append(@, [response |-> Response500, ok |-> ok]),
              !.result = IF ok THEN "none" ELSE "raising"]

\* except Exception: the 500 write is guarded by its own try/except
AfterSend500(w, ok) ==
    [w EXCEPT !.pc = "close",
              !.sent = Append(@, [response |-> Response500, ok |-> ok])]

Send500(c) ==
    /\ conn[c].pc = "send500"
    /\ \E ok \in BOOLEAN : conn' = [conn EXCEPT ![c] = AfterSend500(conn[c], ok)]
    /\ UNCHANGED MainVars

\* finally: client_socket.close(); when it raises (ok = FALSE) the exception
\* is swallowed and leaves no trace. Then handle_client returns, or re-raises
\* the exception the 400 write left pending
AfterClose(w, ok) ==
    [w EXCEPT !.pc = "done", !.closes = @ + 1,
              !.result = IF w.result = "raising" THEN "raised" ELSE "returned"]

Close(c) ==
    /\ conn[c].pc = "close"
    /\ \E ok \in BOOLEAN : conn' = [conn EXCEPT ![c] = AfterClose(conn[c], ok)]
    /\ UNCHANGED MainVars

\* a worker thread takes steps only while the process runs
Worker(c) ==
    /\ exitStatus = <<>>
    /\ \/ Recv(c)
       \/ RecvError(c)
       \/ RouteStep(c)
       \/ Send(c)
       \/ Send400(c)
       \/ Send500(c)
       \/ Close(c)

Next ==
    \/ Bind
    \/ BindFail
    \/ Accept
    \/ AcceptFail
    \/ StartWorker
    \/ StartFail
    \/ Interrupt
    \/ ProcessExit
    \/ \E c \in Conns : Worker(c)

Spec == Init /\ [][Next]_vars

\* connections accepted in the runs checked for termination
MaxLiveConn == 1

LiveAccept ==
    /\ accepted < MaxLiveConn
    /\ Accept

LiveNext ==
    \/ Bind
    \/ BindFail
    \/ LiveAccept
    \/ AcceptFail
    \/ StartWorker
    \/ StartFail
    \/ Interrupt
    \/ ProcessExit
    \/ \E c \in Conns : Worker(c)

\* A started worker thread keeps being scheduled while the process runs, and
\* the calls it makes (recv, the collaborators, sendall, close) return.
FairSpec == Init /\ [][LiveNext]_vars /\ \A c \in Conns : WF_vars(Worker(c))

\* ------------------------------------------------------------------------
\* The functions on their own: parse_http_request, the dispatch and
\* create_http_response applied to one input drawn from bounded sets
\* ------------------------------------------------------------------------

\* "&"-separated pieces of a query string
MaxPairs == 2

\* characters of a body given to create_http_response
MaxBodyLen == 3

\* all sequences over S of length at most n
RECURSIVE SeqsUpTo(_, _)
SeqsUpTo(S, n) ==
    IF n = 0 THEN {<<>>}
    ELSE SeqsUpTo(S, n - 1)
         \cup {Append(s, x) : s \in SeqsUpTo(S, n - 1), x \in S}

\* "&".join(pieces)
RECURSIVE JoinAmp(_)
JoinAmp(pieces) ==
    IF pieces = <<>> THEN <<>>
    ELSE IF Len(pieces) = 1 THEN pieces[1]
    ELSE pieces[1] \o <<"&">> \o JoinAmp(Tail(pieces))

ProbePieces ==
    { <<"currency">>, <<"currency", "=">>, <<"currency", "=", "eur">>,
      <<"title", "=", "alien">> }

ProbeQueries ==
    {<<>>} \cup {<<"?">> \o JoinAmp(ps) : ps \in SeqsUpTo(ProbePieces, MaxPairs)}

ProbePrefixes ==
    { <<>>, <<"http", ":">>, <<"/", "/", "h">>, <<"/", "/", "[">>,
      <<"http", ":", "/", "/", "h">> }

ProbePaths ==
    { <<>>, <<"/">>, <<"/", "movies">>, <<"/", "exchange">>, <<"/", "movie">>,
      <<"/", "nope">>, <<"/", "a", ";", "p", "/", "b">>, <<"/", Wide>> }

ProbeParams == { <<>>, <<";", "p">> }

ProbeFragments == { <<>>, <<"#", "f">>, <<"#", "f", "?", "title", "=", "alien">> }

\* request targets: one token, never empty
ProbeTargets ==
    { pre \o path \o par \o q \o frag :
        pre \in ProbePrefixes, path \in ProbePaths, par \in ProbeParams,
        q \in ProbeQueries, frag \in ProbeFragments } \ {<<>>}

\* the targets sent with every method, version and tail
ProbeRouteTargets ==
    { <<"/">>, <<"/", "movies">>, <<"/", "nope">>,
      <<"/", "exchange", "?", "currency", "=", "eur">>,
      <<"/", "movie", "?", "title", "=", "alien">> }

ProbeMethods == { <<"GET">>, <<"POST">> }

\* the protocol-version token, when present
ProbeVersions == { <<>>, <<SP, "HTTP">> }

\* what follows the request line: header lines and a body
ProbeTails ==
    { <<CRLF>>,
      <<"Host", ":", SP, "h", CRLF, CRLF>>,
      <<CRLF, "title", "=", "alien">>,
      <<CRLF, BadByte>> }

\* the bytes of a request
RawRequest(method, target, version, tail) ==
    Encode(method \o <<SP>> \o target \o version \o <<CRLF>> \o tail)

\* requests whose first line has fewer than two tokens
ProbeShortLines == { <<"GET", CRLF, CRLF>>, <<CRLF>>, <<SP, CRLF>>, <<"GET">> }

RequestProbe(method, target, version, tail) ==
    [pc |-> "request", method |-> method, target |-> target,
     data |-> RawRequest(method, target, version, tail),
     w |-> FreshConn, outcome |-> "none"]

ProbeStatuses ==
    { <<200, "OK">>, <<404, "Not Found">>, <<400, "Bad Request">>,
      <<500, "Internal Server Error">> }

ProbeInputs ==
    { RequestProbe(<<"GET">>, t, <<SP, "HTTP">>, <<CRLF>>) : t \in ProbeTargets }
    \cup { RequestProbe(m, t, v, tl) :
             m \in ProbeMethods, t \in ProbeRouteTargets,
             v \in ProbeVersions, tl \in ProbeTails }
    \cup { [pc |-> "request", method |-> <<>>, target |-> <<>>, data |-> d,
            w |-> FreshConn, outcome |-> "none"] : d \in ProbeShortLines }
    \cup { [pc |-> "body", status_code |-> st[1], status_text |-> st[2],
            body |-> b, response |-> NoResponse, wire |-> <<>>] :
             st \in ProbeStatuses, b \in SeqsUpTo({"a", Wide, CRLF}, MaxBodyLen) }

\* the bytes create_http_response returns: status line, the fixed headers,
\* a blank line, the encoded body
ResponseBytes(response) ==
    <<"HTTP/1.1", SP, ToString(response.status_code), SP, response.status_text, CRLF,
      "Content-Type: text/html; charset=utf-8", CRLF,
      "Content-Length: ", ToString(response.content_length), CRLF,
      "Connection: close", CRLF,
      CRLF>> \o response.body

ServerVars == <<mainPc, exitCause, listenerCloses, accepted, conn, exitStatus>>

ProbeInit ==
    /\ mainPc = "bind"
    /\ exitCause = "none"
    /\ listenerCloses = 0
    /\ accepted = 0
    /\ conn = [c \in Conns |-> FreshConn]
    /\ exitStatus = <<>>
    /\ probe \in ProbeInputs

\* the bytes go through the empty check, the decode and parse_http_request
ProbeParse ==
    /\ probe.pc = "request"
    /\ probe' = [probe EXCEPT
                   !.pc = "parsed",
                   !.w = AfterRecv([FreshConn EXCEPT !.pc = "recv", !.threads = 1,
                                                     !.data = probe.data])]
    /\ UNCHANGED ServerVars

\* the parsed request goes through the dispatch and create_http_response
ProbeRoute ==
    /\ probe.pc = "parsed"
    /\ probe.w.pc = "route"
    /\ \E outcome \in CollabOutcomes :
         probe' = [probe EXCEPT !.pc = "routed", !.outcome = outcome,
                                !.w = AfterRoute(probe.w, outcome)]
    /\ UNCHANGED ServerVars

\* a status and a body go through create_http_response
ProbeBuild ==
    /\ probe.pc = "body"
    /\ probe' = [probe EXCEPT
                   !.pc = "built",
                   !.response = create_http_response(probe.status_code,
                                                     probe.status_text, probe.body),
                   !.wire = ResponseBytes(create_http_response(probe.status_code,
                                                     probe.status_text, probe.body))]
    /\ UNCHANGED ServerVars

ProbeNext ==
    \/ ProbeParse
    \/ ProbeRoute
    \/ ProbeBuild

ProbeSpec == ProbeInit /\ [][ProbeNext]_vars

\* ------------------------------------------------------------------------
\* Properties
\* ------------------------------------------------------------------------

\* handle_client has ended on connection c (returned or raised)
Ended(c) == conn[c].pc = "done"

\* the worker is past its finally-bound steps: only close remains, or nothing
Responded(c) == conn[c].pc \in {"close", "done"}

\* the initial recv on c returned (it did not raise)
ReadReturned(c) ==
    /\ conn[c].pc \notin {"none", "accepted", "recv"}
    /\ conn[c].failed # "recv"

\* the initial recv on c returned at least one byte
ReadBytes(c) == ReadReturned(c) /\ conn[c].data # <<>>

\* the sendall calls on c that carried the given status code
WritesOf(c, code) ==
    {i \in 1..Len(conn[c].sent) : conn[c].sent[i].response.status_code = code}

\* C1: every connection accept returned is closed exactly once on every exit
\* path: never twice, once when handle_client has ended, and also once when
\* the worker for it could not be started.
C1_ClosedExactlyOnce ==
    \A c \in Conns :
        /\ conn[c].closes <= 1
        /\ Ended(c) => conn[c].closes = 1
        /\ (exitCause = "start_failure" /\ conn[c].pc = "accepted")
              => conn[c].closes = 1

\* C2 (as stated): a connection whose read returned at least one byte sees
\* exactly one sendall call by the time handle_client ends.
C2_ExactlyOneWrite ==
    \A c \in Conns : (Ended(c) /\ ReadBytes(c)) => Len(conn[c].sent) = 1

\* C2 (amended): once the worker has finished responding on a connection
\* whose read returned at least one byte, there was exactly one sendall call
\* and the connection was not closed before it, except when the write of
\* the routed (200/404) response failed: then there was exactly one further
\* sendall call, of the 500 response.
C2_OneWriteOrRecovery ==
    \A c \in Conns :
        (Responded(c) /\ ReadBytes(c)) =>
            /\ Len(conn[c].sent) \in {1, 2}
            /\ (Len(conn[c].sent) = 2) <=>
                  (/\ conn[c].sent[1].response.status_code \in {200, 404}
                   /\ ~conn[c].sent[1].ok)
            /\ Len(conn[c].sent) = 2 =>
                  conn[c].sent[2].response.status_code = 500
            /\ conn[c].pc = "close" => conn[c].closes = 0

C2_Witness ==
    \E c \in Conns :
        Ended(c) /\ ReadBytes(c) /\ Len(conn[c].sent) = 2 /\ conn[c].closes = 1

\* the first line of the decoded request has fewer than two tokens
FewTokens(data) ==
    /\ ~Decode(data).raises
    /\ Len(SplitWS(SplitBy(Decode(data).text, CRLF)[1])) < 2

\* C3: a decoded request whose first line has fewer than two tokens parses to
\* the sentinel (method and path empty) and is answered with status 404.
C3_MalformedLineNotFound ==
    \A c \in Conns :
        (ReadBytes(c) /\ FewTokens(conn[c].data) /\ conn[c].routed = 1) =>
            /\ conn[c].parsed.method = <<>>
            /\ conn[c].parsed.path = <<>>
            /\ conn[c].response.status_code = 404

\* C4: when the bytes read cannot be decoded, no routing and no collaborator
\* runs, the only response written is 400 Bad Request with the fixed error
\* body, and the connection is then closed.
C4_DecodeFailureBadRequest ==
    \A c \in Conns :
        (ReadBytes(c) /\ Decode(conn[c].data).raises) =>
            /\ conn[c].routed = 0
            /\ conn[c].collab = 0
            /\ \/ conn[c].pc = "send400" /\ conn[c].sent = <<>>
               \/ /\ Responded(c)
                  /\ Len(conn[c].sent) = 1
                  /\ conn[c].sent[1].response.status_code = 400
                  /\ conn[c].sent[1].response.status_text = "Bad Request"
                  /\ conn[c].sent[1].response.body = Encode(BadRequestBody)
            /\ conn[c].closes = IF Ended(c) THEN 1 ELSE 0

C4_Witness ==
    \E c \in Conns :
        /\ Ended(c) /\ ReadBytes(c) /\ Decode(conn[c].data).raises
        /\ conn[c].sent[1].ok /\ conn[c].closes = 1

\* C5: an unexpected failure while parsing, routing, running a collaborator
\* or building/writing the routed response leads to exactly one attempt to
\* write 500 Internal Server Error with the fixed body, as the last write;
\* whether or not that write fails, handle_client returns normally and the
\* connection is closed exactly once.
C5_FailureInternalError ==
    \A c \in Conns :
        conn[c].failed \in {"parse", "collab", "write"} =>
            /\ conn[c].pc \in {"send500", "close", "done"}
            /\ conn[c].pc = "send500" => WritesOf(c, 500) = {}
            /\ Responded(c) =>
                  /\ WritesOf(c, 500) = {Len(conn[c].sent)}
                  /\ conn[c].sent[Len(conn[c].sent)].response.status_text
                        = "Internal Server Error"
                  /\ conn[c].sent[Len(conn[c].sent)].response.body
                        = Encode(InternalErrorBody)
            /\ Ended(c) => conn[c].result = "returned" /\ conn[c].closes = 1

C5_Witness ==
    \E c \in Conns :
        /\ Ended(c) /\ conn[c].failed = "collab"
        /\ ~conn[c].sent[Len(conn[c].sent)].ok
        /\ conn[c].closes = 1

\* C6: when the initial read returns zero bytes, no response write is
\* attempted, nothing is routed, and the connection is closed.
C6_ZeroReadNoResponse ==
    \A c \in Conns :
        (ReadReturned(c) /\ conn[c].data = <<>>) =>
            /\ conn[c].sent = <<>>
            /\ conn[c].routed = 0
            /\ Responded(c)
            /\ Ended(c) => conn[c].closes = 1 /\ conn[c].result = "returned"

C6_Witness ==
    \E c \in Conns :
        /\ Ended(c) /\ ReadReturned(c) /\ conn[c].data = <<>>
        /\ conn[c].closes = 1

\* C7: a failure of any response write (200/404, 400 or 500) is swallowed:
\* handle_client always returns normally and the connection is closed.
C7_WriteFailureSwallowed ==
    \A c \in Conns :
        Ended(c) => conn[c].result = "returned" /\ conn[c].closes = 1

\* a worker has been started for c and has not ended
Running(c) == conn[c].pc \notin {"none", "accepted", "done"}

\* C8: a step of one connection's worker, failing or not, changes nothing of
\* any other connection and nothing of the accept loop: the loop is not
\* stopped and the other workers keep their own state and outcome.
C8_WorkerIsolation ==
    [][\A c \in Conns :
          (Running(c) /\ conn'[c] # conn[c]) =>
              /\ \A d \in Conns \ {c} : conn'[d] = conn[d]
              /\ UNCHANGED MainVars]_vars

C8_Witness ==
    /\ mainPc = "accept"
    /\ \E c, d \in Conns :
         /\ conn[c].result = "raised"
         /\ conn[d].result = "returned"
         /\ Len(conn[d].sent) = 1
         /\ conn[d].sent[1].ok
         /\ conn[d].sent[1].response.status_code = 200
         /\ conn[d].closes = 1

\* C9: the accept loop never waits for a worker: whenever it is at accept
\* (and the model's bound leaves a connection to accept) it can accept,
\* whatever the workers of earlier connections are doing; and a connection
\* is handed to exactly one worker.
C9_AcceptDoesNotWait ==
    /\ (mainPc = "accept" /\ accepted < MaxConn) => ENABLED Accept
    /\ \A c \in Conns :
         /\ conn[c].threads <= 1
         /\ conn[c].pc \notin {"none", "accepted"} => conn[c].threads = 1

\* a later connection was accepted and served while the worker of the first
\* one is still waiting for its read
C9_Witness ==
    \E c, d \in Conns :
        /\ c < d
        /\ conn[c].pc = "recv"
        /\ Ended(d)
        /\ conn[d].result = "returned"
        /\ Len(conn[d].sent) = 1
        /\ conn[d].sent[1].ok
        /\ conn[d].closes = 1

\* C10: the listening socket is closed exactly when main() has left its
\* loop, whatever ended it, and after that nothing more is accepted.
C10_ListenerClosedOnExit ==
    /\ [](/\ listenerCloses = (IF mainPc = "exited" THEN 1 ELSE 0)
          /\ (mainPc = "exited") <=> (exitCause # "none"))
    /\ [][mainPc = "exited" => (mainPc' = "exited" /\ accepted' = accepted)]_vars

C10_Witness ==
    /\ mainPc = "exited"
    /\ exitCause = "accept_failure"
    /\ accepted >= 1
    /\ listenerCloses = 1

\* C11: when bind or listen fails, the process ends with a non-zero exit
\* status, so that the failure can be told from a clean shutdown.
C11_BindFailureExitsNonZero ==
    (exitCause = "bind_failure" /\ exitStatus # <<>>) => exitStatus[1] # 0

\* C12: the accept loop ends only because bind/listen failed or the operator
\* interrupted it; no failure after listening started ends it.
C12_LoopEndsOnlyOnBindOrInterrupt ==
    mainPc = "exited" => exitCause \in {"bind_failure", "interrupt"}

\* sub occurs in s as a contiguous run
Contains(s, sub) ==
    \E i \in 0..(Len(s) - Len(sub)) : SubSeq(s, i + 1, i + Len(sub)) = sub

\* the response built for the probed request is the given page with status 200
ProbeAnswers(status_code, body) ==
    /\ probe.w.pc = "send"
    /\ probe.w.response.status_code = status_code
    /\ probe.w.response.body = Encode(body)

\* C13: the path alone selects the response. '/' and the empty path give 200
\* with the index page, '/movies' gives 200 with the search form, '/exchange'
\* and '/movie' give 200 with exactly the body the collaborator returned, any
\* other path gives 404 with a body that contains the path; the status does
\* not depend on the query or on what the collaborator answered.
C13_RoutingTable ==
    probe.pc = "routed" =>
        LET path == probe.w.parsed.path
            query == probe.w.parsed.query
        IN /\ path \in {<<"/">>, <<>>} => ProbeAnswers(200, get_index_page)
           /\ path = <<"/", "movies">> => ProbeAnswers(200, get_search_movies)
           /\ path = <<"/", "exchange">> =>
                IF handle_exchange_request(query, probe.outcome).raises
                THEN probe.w.failed = "collab"
                ELSE ProbeAnswers(200,
                         handle_exchange_request(query, probe.outcome).body)
           /\ path = <<"/", "movie">> =>
                IF handle_movie_request(query, probe.outcome).raises
                THEN probe.w.failed = "collab"
                ELSE ProbeAnswers(200,
                         handle_movie_request(query, probe.outcome).body)
           /\ path \notin {<<"/">>, <<>>, <<"/", "movies">>, <<"/", "exchange">>,
                           <<"/", "movie">>} =>
                /\ probe.w.pc = "send"
                /\ probe.w.response.status_code = 404
                /\ probe.w.response.status_text = "Not Found"
                /\ Contains(probe.w.response.body, Encode(path))
           /\ \A o \in CollabOutcomes :
                \/ Route(path, query, o).raises
                \/ probe.w.pc # "send"
                \/ Route(path, query, o).status_code = probe.w.response.status_code

\* an unknown path with a two-byte character was answered 404 with the path
\* in the body
C13_Witness ==
    /\ probe.pc = "routed"
    /\ probe.w.parsed.path = <<"/", Wide>>
    /\ probe.w.parsed.query # EmptyDict
    /\ probe.w.response.status_code = 404
    /\ Contains(probe.w.response.body, <<"/", Lead, Cont>>)

\* a request with a target went through decode and parse_http_request
ProbeParsed ==
    /\ probe.pc \in {"parsed", "routed"}
    /\ probe.target # <<>>
    /\ probe.w.failed # "decode"

\* the target split at its first "?"
TargetPath(target) ==
    IF Has(target, "?") THEN Before(target, Find(target, "?")) ELSE target

TargetQuery(target) ==
    IF Has(target, "?") THEN After(target, Find(target, "?")) ELSE <<>>

\* a target that begins with one "/", has no "#", and has no ";" in the last
\* segment of the part before its first "?"
PlainTarget(target) ==
    /\ target[1] = "/"
    /\ Len(target) >= 2 => target[2] # "/"
    /\ ~Has(target, "#")
    /\ ~Has(After(TargetPath(target), RFind(TargetPath(target), "/")), ";")

C15_ParserNeverRaises ==
    probe.pc \in {"parsed", "routed"} /\ probe.w.failed # "decode" =>
        probe.w.failed # "parse"

\* index of the CRLF that ends the last header line: the first CRLF followed
\* by a CRLF
HeaderEnd(wire) ==
    CHOOSE i \in 1..(Len(wire) - 1) :
        /\ wire[i] = CRLF /\ wire[i + 1] = CRLF
        /\ \A j \in 1..(i - 1) : ~(wire[j] = CRLF /\ wire[j + 1] = CRLF)

\* the bytes that follow the blank line
WireBody(wire) == SubSeq(wire, HeaderEnd(wire) + 2, Len(wire))

\* the value written after "Content-Length: "
WireContentLength(wire) == wire[Find(wire, "Content-Length: ") + 1]

\* C16: for every status code, status text and body, the Content-Length value
\* written by create_http_response is the number of bytes that follow the
\* blank line, and those bytes are the encoded body.
C16_ContentLengthIsByteLength ==
    probe.pc = "built" =>
        /\ WireContentLength(probe.wire) = ToString(Len(WireBody(probe.wire)))
        /\ WireBody(probe.wire) = Encode(probe.body)

\* a body with two-byte characters and a blank line of its own was built:
\* more bytes than characters
C16_Witness ==
    /\ probe.pc = "built"
    /\ probe.body = <<Wide, CRLF, CRLF>>
    /\ WireContentLength(probe.wire) = "4"
    /\ Len(WireBody(probe.wire)) > Len(probe.body)

\* the response a worker is about to write
ResponseOf(w) ==
    IF w.pc = "send400" THEN Response400
    ELSE IF w.pc = "send500" THEN Response500
    ELSE w.response

\* the response to the probed request has been determined
ProbeHandled ==
    /\ probe.pc \in {"parsed", "routed"}
    /\ probe.target # <<>>
    /\ \/ probe.pc = "routed"
       \/ probe.w.pc \in {"send400", "send500"}

\* the handling of the plain GET request for the same target, with the same
\* collaborator outcome
ReferenceHandled ==
    LET r == AfterRecv([FreshConn EXCEPT
                          !.pc = "recv", !.threads = 1,
                          !.data = RawRequest(<<"GET">>, probe.target,
                                              <<SP, "HTTP">>, <<CRLF>>)])
    IN IF r.pc = "route" THEN AfterRoute(r, probe.outcome) ELSE r

CollabPaths == {<<"/", "exchange">>, <<"/", "movie">>}

SameAsReference ==
    /\ ResponseOf(probe.w).status_code = ResponseOf(ReferenceHandled).status_code
    /\ ReferenceHandled.parsed.path \notin CollabPaths =>
         ResponseOf(probe.w) = ResponseOf(ReferenceHandled)

\* C17 as stated: two requests with the same target that differ in method,
\* version token, header lines or body get the same status and, off the
\* collaborator routes, the same body.
C17_ResponseDependsOnTargetOnly ==
    ProbeHandled => SameAsReference

\* C17 amended: two requests with the same target that both decode in the
\* fixed encoding get the same status and, off the collaborator routes, the
\* same body, whatever their method, version token, header lines and body.
C17_DecodableSameTargetSameResponse ==
    ProbeHandled /\ probe.w.failed # "decode" => SameAsReference

\* a POST without version token and with a header line was answered like the
\* plain GET for its target
C17_Witness ==
    /\ probe.pc = "routed"
    /\ probe.method = <<"POST">>
    /\ ~Contains(probe.data, <<SP, "HTTP">>)
    /\ Contains(probe.data, <<"Host">>)
    /\ probe.target = <<"/", "nope">>
    /\ ResponseOf(probe.w).status_code = 404
    /\ ResponseOf(probe.w) = ResponseOf(ReferenceHandled)

\* the "&"-separated pieces of the query string urlparse found in the target
QueryPieces(target) ==
    LET pieces == SplitBy(UrlParse(target).query, "&")
    IN {pieces[i] : i \in 1..Len(pieces)}

PieceName(piece) ==
    IF Has(piece, "=") THEN Before(piece, Find(piece, "=")) ELSE piece

PieceValue(piece) ==
    IF Has(piece, "=") THEN After(piece, Find(piece, "=")) ELSE <<>>

\* C18: the query mapping never has a key with an empty sequence of values,
\* nor an empty value; a key given only without a value is absent; so the
\* first value of a present key always exists.
C18_NoEmptyValueSequence ==
    ProbeParsed /\ probe.w.failed # "parse" =>
        LET query == probe.w.parsed.query
        IN /\ \A k \in DOMAIN query :
                /\ Len(query[k]) >= 1
                /\ \A i \in 1..Len(query[k]) : query[k][i] # <<>>
                /\ FirstValue(query, k, <<"missing">>) = query[k][1]
           /\ \A piece \in QueryPieces(probe.target) :
                (\A other \in QueryPieces(probe.target) :
                    PieceName(other) = PieceName(piece) => PieceValue(other) = <<>>)
                => PieceName(piece) \notin DOMAIN query
           /\ \A piece \in QueryPieces(probe.target) :
                PieceValue(piece) # <<>> => PieceName(piece) \in DOMAIN query

\* "currency=" was given without a value next to "title=alien": only title
\* is in the mapping
C18_Witness ==
    /\ ProbeParsed
    /\ probe.target = <<"/", "exchange", "?", "currency", "=", "&",
                        "title", "=", "alien">>
    /\ DOMAIN probe.w.parsed.query = {<<"title">>}
    /\ probe.w.parsed.query[<<"title">>] = <<<<"alien">>>>

\* C19: within one connection the steps happen in the order read, parse,
\* route, write, close: a write is attempted only after the read has ended
\* and before the close; parsing happens only in the step that reads; routing
\* and collaborator calls happen only after the parse and before any write;
\* once the connection is closed nothing is read, routed or written on it.
C19_StepsInOrder ==
    [][\A c \in Conns :
         /\ Len(conn'[c].sent) > Len(conn[c].sent) =>
              /\ conn[c].pc \notin {"none", "accepted", "recv"}
              /\ conn[c].closes = 0
         /\ conn'[c].parsed # conn[c].parsed =>
              /\ conn[c].pc = "recv"
              /\ conn[c].routed = 0
              /\ conn[c].sent = <<>>
         /\ (conn'[c].routed > conn[c].routed \/ conn'[c].collab > conn[c].collab) =>
              /\ conn[c].pc = "route"
              /\ ReadBytes(c)
              /\ conn[c].sent = <<>>
              /\ conn[c].closes = 0
         /\ conn'[c].data # conn[c].data =>
              /\ conn[c].pc = "recv"
              /\ conn[c].routed = 0
              /\ conn[c].sent = <<>>
              /\ conn[c].closes = 0
         /\ conn[c].closes >= 1 => conn'[c] = conn[c]
         /\ conn'[c].closes > conn[c].closes => conn'[c].pc = "done"
      ]_vars

\* a connection went through all five steps: read, parsed, routed with a
\* collaborator call, one successful write, closed
C19_Witness ==
    \E c \in Conns :
        /\ Ended(c)
        /\ conn[c].parsed.path = <<"/", "exchange">>
        /\ conn[c].routed = 1
        /\ conn[c].collab = 1
        /\ Len(conn[c].sent) = 1
        /\ conn[c].sent[1].ok
        /\ conn[c].closes = 1

\* C20 as stated: provided the read and the collaborator calls return, every
\* started worker eventually ends with its connection closed.
C20_EveryWorkerCloses ==
    \A c \in Conns : (conn[c].pc = "recv") ~> Ended(c)

\* C20 amended: provided the read and the collaborator calls return, every
\* started worker eventually ends with its connection closed, unless the
\* process exits first.
C20_WorkerClosesWhileProcessRuns ==
    \A c \in Conns : (conn[c].pc = "recv") ~> (Ended(c) \/ exitStatus # <<>>)

\* a worker ended, its connection closed, after the write of the response
\* and the recovery write of the 500 both failed, while the process runs
C20_Witness ==
    \E c \in Conns :
        /\ Ended(c)
        /\ exitStatus = <<>>
        /\ conn[c].failed = "write"
        /\ Len(conn[c].sent) = 2
        /\ ~conn[c].sent[2].ok
        /\ conn[c].closes = 1

\* C21: when the initial recv itself raises, nothing is routed, the only
\* write attempted is the 500 response with the fixed body, a failure of
\* that write is swallowed (handle_client returns normally) and the
\* connection is closed once; and a 400 response is written only when the
\* decode of the bytes read failed, and then as the first and only write.
C21_ReadFailureInternalError ==
    \A c \in Conns :
        /\ conn[c].failed = "recv" =>
             /\ conn[c].data = <<>>
             /\ conn[c].routed = 0
             /\ conn[c].collab = 0
             /\ conn[c].pc \in {"send500", "close", "done"}
             /\ conn[c].pc = "send500" => conn[c].sent = <<>>
             /\ Responded(c) =>
                  /\ Len(conn[c].sent) = 1
                  /\ conn[c].sent[1].response.status_code = 500
                  /\ conn[c].sent[1].response.body = Encode(InternalErrorBody)
             /\ Ended(c) => conn[c].result = "returned" /\ conn[c].closes = 1
        /\ (conn[c].pc = "send400" \/ WritesOf(c, 400) # {}) =>
             /\ conn[c].failed = "decode"
             /\ Decode(conn[c].data).raises
             /\ WritesOf(c, 400) = 1..Len(conn[c].sent)
             /\ Len(conn[c].sent) <= 1

\* one connection's recv raised and its 500 write failed too, the worker
\* returned and the connection is closed; another connection's undecodable
\* request got its 400
C21_Witness ==
    \E c, d \in Conns :
        /\ Ended(c)
        /\ conn[c].failed = "recv"
        /\ conn[c].sent[1].response.status_code = 500
        /\ ~conn[c].sent[1].ok
        /\ conn[c].result = "returned"
        /\ conn[c].closes = 1
        /\ Ended(d)
        /\ WritesOf(d, 400) = {1}

====
